---- MODULE Spec2Model ----
(***************************************************************************)
(* Job execution engine of the bot (src/bot.py): the job table and the     *)
(* per-submitter active-job lock, the oversized-input confirmation, the    *)
(* worker pool draining one queue per Job, the progress updater and the    *)
(* runner that finalizes a Job.                                            *)
(*                                                                         *)
(* Threads are modelled at the granularity of their accesses to shared     *)
(* state: a section run under job_lock is one step, a worker's             *)
(* "with job.lock" block is two steps (the bucket increment, then the      *)
(* increment of processed and the unlock), because the readers of the      *)
(* counters do not take job.lock and can run in between.                   *)
(***************************************************************************)
EXTENDS Integers, Sequences, FiniteSets

\* ---------------------------------------------------------------- bounds
MaxJobs == 2           \* Job objects ever constructed in one behaviour
MaxClock == 1          \* int(time.time()) ranges over 0..MaxClock
MAX_LINES == 2         \* config.MAX_LINES, scaled down
DEFAULT_THREADS == 2   \* config.DEFAULT_THREADS, scaled down

\* ------------------------------------------------------------ identities
Users == {"u1", "u2", "adm"}
ADMIN_IDS == {"adm"}
Uploaders == {"u1", "adm"}     \* identities that upload files in this model

JobObjs == 1..MaxJobs
Threads == 1..DEFAULT_THREADS
Times == 0..MaxClock

is_admin(user_id) == user_id \in ADMIN_IDS

\* parse_combos of an uploaded file with n valid lines: files of different
\* lengths have different lines, and a file of three lines repeats its first.
Upload(n) == [i \in 1..n |-> 10 * n + ((i - 1) % 2)]

\* Outcomes of checker.check_account as worker() classifies them:
\* status "HIT" with or without a capture, status "BAD", anything else.
Outcomes == {"HIT_CAPTURE", "HIT", "BAD", "OTHER"}

\* ----------------------------------------------------- dict operations
DictSet(d, k, v) == [x \in (DOMAIN d) \cup {k} |-> IF x = k THEN v ELSE d[x]]
DictPop(d, k) == [x \in (DOMAIN d) \ {k} |-> d[x]]
EmptyDict == [x \in {} |-> 0]

VARIABLES
    now,              \* int(time.time())
    njobs,            \* number of Job objects constructed so far
    jobs,             \* dict job_id -> Job object
    active_by_user,   \* dict user_id -> job_id
    pending_limits,   \* dict user_id -> pending record
    combos,           \* per Job: the list passed to start_job / run_job
    is_admin_user,    \* per Job: the flag passed to start_job / run_job
    job_id,           \* per Job: Job.job_id
    processed, hits, bad, retry, hit_lines,   \* per Job: the counters
    stop_event, done_event,                   \* per Job: the two events
    lock,             \* per Job: the thread holding job.lock, 0 if free
    queue,            \* per Job: run_job's queue
    wpc, item,        \* per Job and worker thread: position, claimed item
    rpc,              \* per Job: position of start_job / run_job
    upc,              \* per Job: position of update_progress_loop
    status_label,     \* per Job: run_job's status_label
    stats,            \* StatsStore.data
    shown,            \* per Job: job.processed as format_progress has read it
    claimed,          \* per Job (history): the items taken off the queue
    stop_claims,      \* per Job (history): Len(claimed) when stop_event was set
    verdicts          \* per Job (history): results of check_account, by outcome

jobvars == <<combos, is_admin_user, job_id, processed, hits, bad, retry, hit_lines,
             stop_event, done_event, lock, queue, wpc, item, rpc, upc,
             status_label, shown, claimed, stop_claims, verdicts>>
regvars == <<jobs, active_by_user, pending_limits>>
vars == <<now, njobs, regvars, jobvars, stats>>

\* Job.user_id is the user part of job_id
user_id(j) == job_id[j][1]
total(j) == Len(combos[j])
Created == 1..njobs

\* A Job object as Job.__init__ leaves it
NewJobs ==
    /\ processed = [j \in JobObjs |-> 0]
    /\ hits = [j \in JobObjs |-> 0]
    /\ bad = [j \in JobObjs |-> 0]
    /\ retry = [j \in JobObjs |-> 0]
    /\ hit_lines = [j \in JobObjs |-> <<>>]
    /\ stop_event = [j \in JobObjs |-> FALSE]
    /\ done_event = [j \in JobObjs |-> FALSE]
    /\ lock = [j \in JobObjs |-> 0]
    /\ queue = [j \in JobObjs |-> <<>>]
    /\ wpc = [j \in JobObjs |-> [w \in Threads |-> "none"]]
    /\ item = [j \in JobObjs |-> [w \in Threads |-> 0]]
    /\ upc = [j \in JobObjs |-> "none"]
    /\ status_label = [j \in JobObjs |-> "none"]
    /\ claimed = [j \in JobObjs |-> <<>>]
    /\ stop_claims = [j \in JobObjs |-> -1]
    /\ shown = [j \in JobObjs |-> 0]
    /\ verdicts = [j \in JobObjs |-> [o \in Outcomes |-> 0]]

\* The process after start-up: no job, no pending record, empty stats
Init ==
    /\ now = 0
    /\ njobs = 0
    /\ jobs = EmptyDict
    /\ active_by_user = EmptyDict
    /\ pending_limits = EmptyDict
    /\ combos = [j \in JobObjs |-> <<>>]
    /\ is_admin_user = [j \in JobObjs |-> FALSE]
    /\ job_id = [j \in JobObjs |-> <<"adm", 0>>]
    /\ rpc = [j \in JobObjs |-> "none"]
    /\ stats = [users |-> <<>>, total_lines_checked |-> 0, total_hits |-> 0]
    /\ NewJobs

\* The process right after the first start_job has left its job_lock section:
\* one Job of `user` with n items is in the table, no thread is started yet.
JobInit ==
    \E user \in Uploaders :
    \E n \in 1..(IF is_admin(user) THEN MAX_LINES + 1 ELSE MAX_LINES) :
        /\ now = 0
        /\ njobs = 1
        /\ jobs = DictSet(EmptyDict, <<user, 0>>, 1)
        /\ active_by_user = IF is_admin(user) THEN EmptyDict
                            ELSE DictSet(EmptyDict, user, <<user, 0>>)
        /\ pending_limits = EmptyDict
            /\ combos = [j \in JobObjs |-> IF j = 1 THEN Upload(n) ELSE <<>>]
        /\ is_admin_user = [j \in JobObjs |-> j = 1 /\ is_admin(user)]
        /\ job_id = [j \in JobObjs |-> IF j = 1 THEN <<user, 0>> ELSE <<"adm", 0>>]
        /\ rpc = [j \in JobObjs |-> IF j = 1 THEN "admitted" ELSE "none"]
        /\ stats = [users |-> <<>>, total_lines_checked |-> 0, total_hits |-> 0]
        /\ NewJobs

\* ------------------------------------------------------------ handlers

\* (mutant) the slice taken from the end of the list
first_lines_tail(parsed) == SubSeq(parsed, Len(parsed) - MAX_LINES + 1, Len(parsed))

\* combos[:MAX_LINES]
first_lines(parsed) == SubSeq(parsed, 1, MAX_LINES)

\* (mutant) start_job without the active-job test
active_conflict_never(user, admin) == FALSE

\* start_job's test under job_lock: the submitter already holds the active-job lock
active_conflict(user, admin) == ~admin /\ user \in DOMAIN active_by_user

\* start_job, the section under job_lock: either the "already running" answer, or
\* a new Job, constructed at the current time and put into both dicts.
start_job(user, list, admin) ==
    IF active_conflict(user, admin)
    THEN UNCHANGED <<now, njobs, jobs, active_by_user, combos, is_admin_user,
                     job_id, rpc>>
    ELSE /\ njobs < MaxJobs
         /\ \E t \in now..MaxClock :
              LET j == njobs + 1
                  id == <<user, t>> IN
              /\ now' = t
              /\ njobs' = j
              /\ job_id' = [job_id EXCEPT ![j] = id]
              /\ combos' = [combos EXCEPT ![j] = list]
              /\ is_admin_user' = [is_admin_user EXCEPT ![j] = admin]
              /\ jobs' = DictSet(jobs, id, j)
              /\ active_by_user' = IF admin THEN active_by_user
                                   ELSE DictSet(active_by_user, user, id)
              /\ rpc' = [rpc EXCEPT ![j] = "admitted"]

\* handle_document for a file with n valid lines: the admission pre-check under
\* job_lock, then either the pending record for an oversized list of a
\* non-administrator, or start_job.
handle_document(user, n) ==
    /\ IF user \in DOMAIN active_by_user /\ ~is_admin(user)
       THEN UNCHANGED <<now, njobs, jobs, active_by_user, pending_limits, combos,
                        is_admin_user, job_id, rpc>>
       ELSE LET parsed == Upload(n) IN
            IF ~is_admin(user) /\ Len(parsed) > MAX_LINES
            THEN /\ pending_limits' = DictSet(pending_limits, user,
                        [combos |-> first_lines(parsed),
                         is_admin |-> is_admin(user)])
                 /\ UNCHANGED <<now, njobs, jobs, active_by_user, combos,
                                is_admin_user, job_id, rpc>>
            ELSE /\ start_job(user, parsed, is_admin(user))
                 /\ UNCHANGED pending_limits
    /\ UNCHANGED <<verdicts, shown, processed, hits, bad, retry, hit_lines, stop_event, done_event,
                   lock, queue, wpc, item, upc, status_label, stats, claimed,
                   stop_claims>>

\* (mutant) the record is read with get and stays in the dict
pop_pending_keep(user) == pending_limits

\* pending_limits.pop(user_id, None), the dict it leaves
pop_pending(user) == DictPop(pending_limits, user)

\* (mutant) the decision of any identity is taken
not_for_you_never(caller, user) == FALSE

\* handle_limit_decision: call.from_user.id != user_id
not_for_you(caller, user) == caller # user

\* handle_limit_decision: "Not for you." for another identity, "Expired." when
\* pending_limits.pop finds nothing; otherwise the record is consumed and, on
\* yes, passed to start_job.
handle_limit_decision(caller, user, yes) ==
    /\ IF not_for_you(caller, user) \/ user \notin DOMAIN pending_limits
       THEN UNCHANGED <<now, njobs, jobs, active_by_user, pending_limits, combos,
                        is_admin_user, job_id, rpc>>
       ELSE /\ pending_limits' = pop_pending(user)
            /\ IF yes
               THEN start_job(user, pending_limits[user].combos,
                              pending_limits[user].is_admin)
               ELSE UNCHANGED <<now, njobs, jobs, active_by_user, combos,
                                is_admin_user, job_id, rpc>>
    /\ UNCHANGED <<verdicts, shown, processed, hits, bad, retry, hit_lines, stop_event, done_event,
                   lock, queue, wpc, item, upc, status_label, stats, claimed,
                   stop_claims>>

\* start_job after the lock: the "Starting checker..." message, then the updater
\* and runner threads; run_job fills the queue and starts the workers. The
\* message is not guarded: when it raises, no thread is started.
start_job_launch(j) ==
    /\ rpc[j] = "admitted"
    /\ \/ /\ rpc' = [rpc EXCEPT ![j] = "join"]
          /\ upc' = [upc EXCEPT ![j] = "loop"]
          /\ queue' = [queue EXCEPT ![j] = combos[j]]
          /\ wpc' = [wpc EXCEPT ![j] = [w \in Threads |-> "test"]]
       \/ /\ rpc' = [rpc EXCEPT ![j] = "failed"]
          /\ UNCHANGED <<upc, queue, wpc>>
    /\ UNCHANGED <<verdicts, shown, now, njobs, regvars, combos, is_admin_user, job_id, processed,
                   hits, bad, retry, hit_lines, stop_event, done_event, lock,
                   item, status_label, stats, claimed, stop_claims>>

\* (mutant) handle_stop without the test of the requester
stop_accepted_anyone(caller, id) == id \in DOMAIN jobs

\* handle_stop: the job is looked up by id; a requester who is neither an
\* administrator nor the job's user gets "No active check.".
stop_accepted(caller, id) ==
    /\ id \in DOMAIN jobs
    /\ (is_admin(caller) \/ user_id(jobs[id]) = caller)

handle_stop(caller, id) ==
    /\ IF stop_accepted(caller, id)
       THEN LET j == jobs[id] IN
            /\ stop_event' = [stop_event EXCEPT ![j] = TRUE]
            /\ stop_claims' = IF stop_event[j] THEN stop_claims
                              ELSE [stop_claims EXCEPT ![j] = Len(claimed[j])]
       ELSE UNCHANGED <<stop_event, stop_claims>>
    /\ UNCHANGED <<verdicts, shown, now, njobs, regvars, combos, is_admin_user, job_id, processed,
                   hits, bad, retry, hit_lines, done_event, lock, queue, wpc,
                   item, rpc, upc, status_label, stats, claimed>>

\* ------------------------------------------------------------- run_job

\* (mutant) a worker loop that never looks at stop_event
keep_going_always(j) == TRUE

\* worker(): the loop test "while not job.stop_event.is_set()"
keep_going(j) == ~stop_event[j]

worker_test(j, w) ==
    /\ wpc[j][w] = "test"
    /\ wpc' = [wpc EXCEPT ![j][w] = IF keep_going(j) THEN "get" ELSE "done"]
    /\ UNCHANGED <<verdicts, shown, now, njobs, regvars, combos, is_admin_user, job_id, processed,
                   hits, bad, retry, hit_lines, stop_event, done_event, lock,
                   queue, item, rpc, upc, status_label, stats, claimed,
                   stop_claims>>

\* (mutant) the item is read but stays at the head of the queue
after_get_peek(q) == IF Len(q) > 1 THEN q ELSE Tail(q)

\* what queue.get_nowait() leaves in the queue
after_get(q) == Tail(q)

\* (mutant) a blocking get: on an empty queue the thread waits
on_empty_wait == "get"

\* worker(): "except Empty: return"
on_empty == "done"

\* worker(): queue.get_nowait(); Empty ends the thread
worker_get(j, w) ==
    /\ wpc[j][w] = "get"
    /\ IF queue[j] = <<>>
       THEN /\ wpc' = [wpc EXCEPT ![j][w] = on_empty]
            /\ UNCHANGED <<queue, item, claimed>>
       ELSE /\ item' = [item EXCEPT ![j][w] = Head(queue[j])]
            /\ queue' = [queue EXCEPT ![j] = after_get(queue[j])]
            /\ claimed' = [claimed EXCEPT ![j] = Append(claimed[j], Head(queue[j]))]
            /\ wpc' = [wpc EXCEPT ![j][w] = "check"]
    /\ UNCHANGED <<verdicts, shown, now, njobs, regvars, combos, is_admin_user, job_id, processed,
                   hits, bad, retry, hit_lines, stop_event, done_event, lock,
                   rpc, upc, status_label, stats, stop_claims>>

\* (mutant) a hit without a capture is not taken for a hit
is_hit_with_capture(outcome) == outcome = "HIT_CAPTURE"

\* worker(): status == "HIT"
is_hit(outcome) == outcome \in {"HIT", "HIT_CAPTURE"}

\* worker(): elif status == "BAD"
is_bad(outcome) == ~is_hit(outcome) /\ outcome = "BAD"

\* worker(): else
is_retry(outcome) == ~is_hit(outcome) /\ ~is_bad(outcome)

\* worker(): check_account has returned `outcome` for the item, job.lock is
\* taken and the outcome is classified into its bucket (lines 194-204)
worker_record(j, w, outcome) ==
    /\ wpc[j][w] = "check"
    /\ lock[j] = 0
    /\ lock' = [lock EXCEPT ![j] = w]
    /\ verdicts' = [verdicts EXCEPT ![j][outcome] = @ + 1]
    /\ hits' = [hits EXCEPT ![j] = IF is_hit(outcome) THEN @ + 1 ELSE @]
    /\ hit_lines' = [hit_lines EXCEPT ![j] =
                  IF is_hit(outcome) /\ outcome = "HIT_CAPTURE"
                  THEN Append(@, item[j][w]) ELSE @]
    /\ bad' = [bad EXCEPT ![j] = IF is_bad(outcome) THEN @ + 1 ELSE @]
    /\ retry' = [retry EXCEPT ![j] = IF is_retry(outcome) THEN @ + 1 ELSE @]
    /\ wpc' = [wpc EXCEPT ![j][w] = "locked"]
    /\ UNCHANGED <<shown, now, njobs, regvars, combos, is_admin_user, job_id, processed,
                   stop_event, done_event, queue, item, rpc, upc, status_label,
                   stats, claimed, stop_claims>>

\* (mutant) the item is not counted
count_processed_skip(n) == n

\* worker(): job.processed += 1
count_processed(n) == n + 1

\* (mutant) after an item the worker takes the next one without the loop test
after_commit_get == "get"

\* worker(): after queue.task_done() the loop goes back to its test
after_commit == "test"

\* worker(): job.processed += 1, the lock is released, queue.task_done()
worker_commit(j, w) ==
    /\ wpc[j][w] = "locked"
    /\ processed' = [processed EXCEPT ![j] = count_processed(@)]
    /\ lock' = [lock EXCEPT ![j] = 0]
    /\ item' = [item EXCEPT ![j][w] = 0]
    /\ wpc' = [wpc EXCEPT ![j][w] = after_commit]
    /\ UNCHANGED <<verdicts, shown, now, njobs, regvars, combos, is_admin_user, job_id, hits, bad,
                   retry, hit_lines, stop_event, done_event, queue, rpc,
                   upc, status_label, stats, claimed, stop_claims>>

worker(j, w) ==
    \/ worker_test(j, w)
    \/ worker_get(j, w)
    \/ \E outcome \in Outcomes : worker_record(j, w, outcome)
    \/ worker_commit(j, w)

\* The worker threads of a Job from their start to the join, as one step: they
\* find stop_event set and leave at once, or they drain the queue and record
\* the outcome of every item; here check_account gives all items of the Job
\* the same outcome. (The threads' own steps, with an outcome per item, are
\* worker(j, w).)
worker_pool(j) ==
    /\ rpc[j] = "join"
    /\ \A w \in Threads : wpc[j][w] = "test"
    /\ wpc' = [wpc EXCEPT ![j] = [w \in Threads |-> "done"]]
    /\ IF stop_event[j]
       THEN UNCHANGED <<processed, hits, bad, retry, hit_lines, queue, claimed,
                        verdicts>>
       ELSE \E outcome \in Outcomes :
              LET n == Len(queue[j]) IN
              /\ verdicts' = [verdicts EXCEPT ![j][outcome] = @ + n]
              /\ hits' = [hits EXCEPT ![j] = IF is_hit(outcome) THEN @ + n ELSE @]
              /\ hit_lines' = [hit_lines EXCEPT ![j] =
                            IF is_hit(outcome) /\ outcome = "HIT_CAPTURE"
                            THEN @ \o queue[j] ELSE @]
              /\ bad' = [bad EXCEPT ![j] = IF is_bad(outcome) THEN @ + n ELSE @]
              /\ retry' = [retry EXCEPT ![j] = IF is_retry(outcome) THEN @ + n ELSE @]
              /\ processed' = [processed EXCEPT ![j] = @ + n]
              /\ claimed' = [claimed EXCEPT ![j] = @ \o queue[j]]
              /\ queue' = [queue EXCEPT ![j] = <<>>]
    /\ UNCHANGED <<shown, now, njobs, regvars, combos, is_admin_user, job_id,
                   stop_event, done_event, lock, item, rpc, upc, status_label,
                   stats, stop_claims>>

\* (mutant) the label does not depend on stop_event
label_completed(j) == "Completed"

\* run_job line 219
label(j) == IF ~stop_event[j] THEN "Completed" ELSE "Stopped"

\* (mutant) only the first worker thread is joined
joined_first(j) == wpc[j][1] = "done"

\* run_job: "for t in threads: t.join()" has returned
joined(j) == \A w \in Threads : wpc[j][w] = "done"

\* run_job: every worker is joined, done_event is set, status_label is computed
run_job_done(j) ==
    /\ rpc[j] = "join"
    /\ joined(j)
    /\ done_event' = [done_event EXCEPT ![j] = TRUE]
    /\ status_label' = [status_label EXCEPT ![j] = label(j)]
    /\ rpc' = [rpc EXCEPT ![j] = "deliver"]
    /\ UNCHANGED <<verdicts, shown, now, njobs, regvars, combos, is_admin_user, job_id, processed,
                   hits, bad, retry, hit_lines, stop_event, lock, queue, wpc,
                   item, upc, stats, claimed, stop_claims>>

\* run_job: send_hits_file to the submitter is not guarded, so its failure ends
\* the runner thread; the sends to the administrators are guarded.
run_job_deliver(j) ==
    /\ rpc[j] = "deliver"
    /\ \/ rpc' = [rpc EXCEPT ![j] = "stats"]
       \/ rpc' = [rpc EXCEPT ![j] = "aborted"]
    /\ UNCHANGED <<verdicts, shown, now, njobs, regvars, combos, is_admin_user, job_id, processed,
                   hits, bad, retry, hit_lines, stop_event, done_event, lock,
                   queue, wpc, item, upc, status_label, stats, claimed,
                   stop_claims>>

\* StatsStore.add_user
add_user(data, user) ==
    IF \E i \in DOMAIN data.users : data.users[i] = user THEN data
    ELSE [data EXCEPT !.users = Append(@, user)]

\* StatsStore.add_run
add_run(data, lines_checked, nhits) ==
    [data EXCEPT !.total_lines_checked = @ + lines_checked,
                 !.total_hits = @ + nhits]

\* run_job: stats.add_user, stats.add_run
run_job_stats(j) ==
    /\ rpc[j] = "stats"
    /\ stats' = add_run(add_user(stats, user_id(j)), processed[j], hits[j])
    /\ rpc' = [rpc EXCEPT ![j] = "release"]
    /\ UNCHANGED <<verdicts, shown, now, njobs, regvars, combos, is_admin_user, job_id, processed,
                   hits, bad, retry, hit_lines, stop_event, done_event, lock,
                   queue, wpc, item, upc, status_label, claimed,
                   stop_claims>>

\* (mutant) the job table is emptied
release_jobs_clear(id) == EmptyDict

\* run_job: jobs.pop(job.job_id, None)
release_jobs(id) == DictPop(jobs, id)

\* run_job: "if not is_admin_user: active_by_user.pop(job.user_id, None)"
release_active(user, admin) ==
    IF admin THEN active_by_user ELSE DictPop(active_by_user, user)

\* run_job: the section under job_lock that pops the job from both dicts
run_job_release(j) ==
    /\ rpc[j] = "release"
    /\ jobs' = release_jobs(job_id[j])
    /\ active_by_user' = release_active(user_id(j), is_admin_user[j])
    /\ rpc' = [rpc EXCEPT ![j] = "finished"]
    /\ UNCHANGED <<verdicts, shown, now, njobs, pending_limits, combos, is_admin_user,
                   job_id, processed, hits, bad, retry, hit_lines, stop_event,
                   done_event, lock, queue, wpc, item, upc, status_label,
                   stats, claimed, stop_claims>>

\* The release section of run_job (lines 253-256) run once more for a Job
\* that has already been released
release_again(j) ==
    /\ rpc[j] = "finished"
    /\ jobs' = release_jobs(job_id[j])
    /\ active_by_user' = release_active(user_id(j), is_admin_user[j])
    /\ UNCHANGED <<now, njobs, pending_limits, jobvars, stats>>

\* ------------------------------------------------ update_progress_loop

\* one pass of the loop, first part: the loop test finds done_event not set and
\* format_progress reads job.processed (line 57), without job.lock
update_progress_read(j) ==
    /\ upc[j] = "loop"
    /\ ~done_event[j]
    /\ shown' = [shown EXCEPT ![j] = processed[j]]
    /\ upc' = [upc EXCEPT ![j] = "render"]
    /\ UNCHANGED <<verdicts, now, njobs, regvars, combos, is_admin_user, job_id,
                   processed, hits, bad, retry, hit_lines, stop_event,
                   done_event, lock, queue, wpc, item, rpc, status_label,
                   stats, claimed, stop_claims>>

\* (mutant) an edit that raises ends the thread
after_edit_raise(ok) == IF ok THEN "loop" ELSE "exit"

\* update_progress_loop: "except Exception: pass", then the sleep and the
\* next pass, whether the edit arrived or raised
after_edit(ok) == "loop"

\* one pass of the loop, second part: format_progress reads job.hits and
\* job.bad (line 63), the edit arrives (ok) or raises, then the sleep
update_progress_tick(j) ==
    /\ upc[j] = "render"
    /\ \E ok \in BOOLEAN : upc' = [upc EXCEPT ![j] = after_edit(ok)]
    /\ shown' = [shown EXCEPT ![j] = 0]
    /\ UNCHANGED <<verdicts, now, njobs, regvars, combos, is_admin_user, job_id,
                   processed, hits, bad, retry, hit_lines, stop_event,
                   done_event, lock, queue, wpc, item, rpc, status_label,
                   stats, claimed, stop_claims>>

\* the loop test finds done_event set
update_progress_leave(j) ==
    /\ upc[j] = "loop"
    /\ done_event[j]
    /\ upc' = [upc EXCEPT ![j] = "final"]
    /\ UNCHANGED <<verdicts, shown, now, njobs, regvars, combos, is_admin_user, job_id, processed,
                   hits, bad, retry, hit_lines, stop_event, done_event, lock,
                   queue, wpc, item, rpc, status_label, stats, claimed,
                   stop_claims>>

\* the edit after the loop, then the thread ends
update_progress_final(j) ==
    /\ upc[j] = "final"
    /\ upc' = [upc EXCEPT ![j] = "exit"]
    /\ UNCHANGED <<verdicts, shown, now, njobs, regvars, combos, is_admin_user, job_id, processed,
                   hits, bad, retry, hit_lines, stop_event, done_event, lock,
                   queue, wpc, item, rpc, status_label, stats, claimed,
                   stop_claims>>

update_progress_loop(j) ==
    \/ update_progress_read(j)
    \/ update_progress_tick(j)
    \/ update_progress_leave(j)
    \/ update_progress_final(j)

\* ---------------------------------------------------------------- system
JobIds == Users \X Times

Handlers ==
    \/ \E user \in Uploaders, n \in 1..(MAX_LINES + 1) : handle_document(user, n)
    \/ \E caller \in Users, user \in Uploaders, yes \in BOOLEAN :
          handle_limit_decision(caller, user, yes)

Stops == \E caller \in Users, id \in JobIds : handle_stop(caller, id)

Runners ==
    \E j \in JobObjs :
        \/ start_job_launch(j)
        \/ run_job_done(j)
        \/ run_job_deliver(j)
        \/ run_job_stats(j)
        \/ run_job_release(j)

Pools == \E j \in JobObjs : worker_pool(j)

Workers == \E j \in JobObjs, w \in Threads : worker(j, w)

Updaters == \E j \in JobObjs : update_progress_loop(j)

\* The handlers and the runners of all Jobs; the worker threads of a Job run
\* as one step, nobody presses Stop.
Next == Handlers \/ Runners \/ Pools

Spec == Init /\ [][Next]_vars

Releases == \E j \in JobObjs : release_again(j)

\* The whole system, with the release of a finished Job repeated at any moment
ReleaseNext == Next \/ Releases

ReleaseSpec == Init /\ [][ReleaseNext]_vars

\* One Job from its admission on, every thread taking its own steps, with the
\* Stop button pressed at any moment by anybody.
JobNext == Stops \/ Runners \/ Workers \/ Updaters

JobSpec == JobInit /\ [][JobNext]_vars

\* The scheduler runs every started thread: a step of start_job, of a worker or
\* of the runner that stays possible is eventually taken, and so is a step of
\* the updater.
FairJobSpec == JobSpec /\ WF_vars(Runners \/ Workers) /\ WF_vars(Updaters)

\* ------------------------------------------------------------------ claims
Registered(j) == \E id \in DOMAIN jobs : jobs[id] = j
AllExited(j) == \A w \in Threads : wpc[j][w] = "done"
Launched(j) == rpc[j] \in {"join", "deliver", "stats", "release", "finished", "aborted"}
Occurrences(seq, v) == Cardinality({i \in DOMAIN seq : seq[i] = v})
Held(j) == {w \in Threads : wpc[j][w] \in {"check", "locked"}}

\* C1: a submitter who is not an administrator never has more than one Job in
\* the job table, whatever the order of submissions, approvals and releases.
C1_OneJobPerSubmitter ==
    \A u \in Users \ ADMIN_IDS :
        /\ Cardinality({id \in DOMAIN jobs : user_id(jobs[id]) = u}) <= 1
        /\ Cardinality({j \in Created : Registered(j) /\ user_id(j) = u}) <= 1

\* C1 witness: the submitter's second Job is in the table, the first one has
\* been released.
C1_Witness ==
    /\ njobs = 2
    /\ user_id(1) = "u1" /\ user_id(2) = "u1"
    /\ ~Registered(1) /\ Registered(2)

\* C2: the items taken off the queue and the items left in it are together
\* exactly the submitted items, every taken item is held by one worker or
\* already recorded, and once all workers have left without a stop request
\* every submitted item has been taken exactly once.
C2_ClaimedOnce ==
    \A j \in Created : Launched(j) =>
        /\ \A v \in {combos[j][i] : i \in DOMAIN combos[j]} :
              Occurrences(claimed[j], v) + Occurrences(queue[j], v)
                 = Occurrences(combos[j], v)
        /\ Len(claimed[j]) = processed[j] + Cardinality(Held(j))
        /\ (AllExited(j) /\ ~stop_event[j]) =>
              \A v \in {combos[j][i] : i \in DOMAIN combos[j]} :
                  Occurrences(claimed[j], v) = Occurrences(combos[j], v)

\* C2 witness: a list with a repeated item has been drained by the two workers
\* without a stop request.
C2_Witness ==
    /\ AllExited(1) /\ ~stop_event[1]
    /\ total(1) = MAX_LINES + 1
    /\ claimed[1] = combos[1]
    /\ processed[1] = total(1)

\* A task that reads the counters of Job j without job.lock can run now: the
\* updater (format_progress), or a handler that finds the Job in the job
\* table (format_active_summary, the administrators' list of active checks).
Observable(j) == upc[j] \in {"loop", "render", "final"} \/ Registered(j)

\* C3: whenever a reader can look at a Job, processed equals
\* hits + bad + retry and does not exceed the total.
C3_CountersConsistentWhenObserved ==
    \A j \in Created : Observable(j) =>
        /\ processed[j] = hits[j] + bad[j] + retry[j]
        /\ processed[j] <= total(j)

\* C4: a launched Job whose Stop is never pressed comes to the state where all
\* workers have left, done_event is set, the label is Completed and every item
\* is processed.
C4_Terminates ==
    \A j \in JobObjs :
        (rpc[j] = "join") ~>
            (\/ stop_event[j]
             \/ /\ AllExited(j)
                /\ done_event[j]
                /\ status_label[j] = "Completed"
                /\ processed[j] = total(j))

\* C4 witness: a Job of three items has ended Completed without a stop request.
C4_Witness ==
    /\ status_label[1] = "Completed" /\ ~stop_event[1]
    /\ total(1) = MAX_LINES + 1 /\ processed[1] = total(1)
    /\ done_event[1]

\* C5: a Job whose stop request was accepted is never reported Completed.
C5_AcceptedStopReportsStopped ==
    \A j \in Created :
        (stop_event[j] /\ status_label[j] # "none") => status_label[j] = "Stopped"

\* C6 as claimed: a Job stopped before any item was taken off the queue ends
\* Stopped with nothing processed.
C6_StopBeforeClaimProcessesNothing ==
    \A j \in Created :
        (stop_claims[j] = 0 /\ status_label[j] # "none") =>
            (status_label[j] = "Stopped" /\ processed[j] = 0)

\* C6 as amended: a Job stopped before any item was taken off the queue ends
\* Stopped, and each worker has processed at most the one item it took after
\* having seen the flag unset.
C6_StopBeforeClaimBound ==
    \A j \in Created :
        /\ stop_claims[j] = 0 =>
              /\ Len(claimed[j]) <= DEFAULT_THREADS
              /\ processed[j] <= DEFAULT_THREADS
        /\ (stop_claims[j] = 0 /\ status_label[j] # "none") =>
              status_label[j] = "Stopped"

\* C6 witness: stopped before the first claim, and still an item was processed.
C6_Witness ==
    /\ stop_claims[1] = 0
    /\ status_label[1] = "Stopped"
    /\ processed[1] > 0

\* C7 as claimed: at the end of a Job, processed equals the total exactly when
\* the Job ended Completed.
C7_FullIffCompleted ==
    \A j \in Created :
        status_label[j] # "none" =>
            (processed[j] = total(j) <=> status_label[j] = "Completed")

\* C7 as amended: a Job that ends without a stop request, or with the label
\* Completed, has processed every item; any Job ends with processed <= total.
C7_CompletedMeansAll ==
    \A j \in Created :
        status_label[j] # "none" =>
            /\ processed[j] <= total(j)
            /\ status_label[j] = "Completed" => processed[j] = total(j)
            /\ ~stop_event[j] => processed[j] = total(j)

\* C7 witness: a Job that ended Stopped with every item processed.
C7_Witness ==
    /\ status_label[1] = "Stopped"
    /\ total(1) = MAX_LINES + 1
    /\ processed[1] = total(1)

\* C8: no admitted Job is left with start_job or its runner ended by a failed
\* send: each one gets its threads, its stats update and its release.
C8_DeliveryFailureNeverAborts ==
    \A j \in Created : rpc[j] \notin {"failed", "aborted"}

\* The registry and the Jobs are as they were: no Job was made, none was
\* entered into or removed from the dicts.
NoJobMade ==
    /\ njobs' = njobs
    /\ jobs' = jobs
    /\ active_by_user' = active_by_user

\* A Job over `list` was made for user u and entered into both dicts.
JobMade(u, list) ==
    /\ njobs' = njobs + 1
    /\ combos'[njobs'] = list
    /\ job_id'[njobs'][1] = u
    /\ rpc'[njobs'] = "admitted"
    /\ jobs' = DictSet(jobs, job_id'[njobs'], njobs')
    /\ active_by_user' = DictSet(active_by_user, u, job_id'[njobs'])

\* The first MAX_LINES lines of a file of n lines
FirstLines(n) == [i \in 1..MAX_LINES |-> Upload(n)[i]]

\* C9 as claimed: an oversized submission of a non-administrator makes no Job
\* and stores the first MAX_LINES items; the owner's yes makes a Job of
\* MAX_LINES items; the owner's no makes no Job and removes the record.
C9_ApproveAlwaysStartsJob ==
    [][\A u \in Uploaders \ ADMIN_IDS :
        /\ (u \notin DOMAIN active_by_user
              /\ handle_document(u, MAX_LINES + 1)) =>
              /\ NoJobMade
              /\ u \in DOMAIN pending_limits'
              /\ pending_limits'[u].combos = FirstLines(MAX_LINES + 1)
        /\ (u \in DOMAIN pending_limits
              /\ handle_limit_decision(u, u, TRUE)) =>
              /\ u \notin DOMAIN pending_limits'
              /\ JobMade(u, pending_limits[u].combos)
              /\ Len(combos'[njobs']) = MAX_LINES
        /\ (u \in DOMAIN pending_limits
              /\ handle_limit_decision(u, u, FALSE)) =>
              /\ u \notin DOMAIN pending_limits'
              /\ NoJobMade
      ]_vars

\* C9 as amended: as above, but the owner's yes goes through the admission of
\* start_job: it makes the Job of MAX_LINES items only if the owner has no Job
\* in the table, and otherwise makes none.
C9_OversizeConfirmation ==
    [][\A u \in Uploaders \ ADMIN_IDS :
        /\ (u \notin DOMAIN active_by_user
              /\ handle_document(u, MAX_LINES + 1)) =>
              /\ NoJobMade
              /\ u \in DOMAIN pending_limits'
              /\ pending_limits'[u].combos = FirstLines(MAX_LINES + 1)
        /\ (u \in DOMAIN pending_limits
              /\ handle_limit_decision(u, u, TRUE)) =>
              /\ u \notin DOMAIN pending_limits'
              /\ IF u \in DOMAIN active_by_user
                 THEN NoJobMade
                 ELSE /\ JobMade(u, pending_limits[u].combos)
                      /\ Len(combos'[njobs']) = MAX_LINES
        /\ (u \in DOMAIN pending_limits
              /\ handle_limit_decision(u, u, FALSE)) =>
              /\ u \notin DOMAIN pending_limits'
              /\ NoJobMade
      ]_vars

\* C9 witness: the Job made from an approved record is in the table and the
\* record is gone.
C9_Witness ==
    /\ njobs = 1
    /\ combos[1] = FirstLines(MAX_LINES + 1)
    /\ Registered(1)
    /\ active_by_user = DictSet(EmptyDict, "u1", job_id[1])
    /\ pending_limits = EmptyDict

\* C10: a decision by the owner that finds a record removes it and makes at
\* most one Job, from that record; a record disappears only by such a
\* decision; any other decision changes nothing.
C10_ConsumedOnce ==
    [][/\ \A caller \in Users, u \in Uploaders, yes \in BOOLEAN :
            handle_limit_decision(caller, u, yes) =>
               IF caller = u /\ u \in DOMAIN pending_limits
               THEN /\ pending_limits' = DictPop(pending_limits, u)
                    /\ \/ NoJobMade
                       \/ yes /\ JobMade(u, pending_limits[u].combos)
               ELSE UNCHANGED vars
       /\ \A u \in Uploaders :
            (u \in DOMAIN pending_limits /\ u \notin DOMAIN pending_limits') =>
               \E yes \in BOOLEAN : handle_limit_decision(u, u, yes)
      ]_vars

\* C10 witness: one record was approved and became a Job, which has been
\* released, and the owner's next oversized file has its record waiting.
C10_Witness ==
    /\ njobs = 1
    /\ combos[1] = FirstLines(MAX_LINES + 1)
    /\ rpc[1] = "finished"
    /\ "u1" \in DOMAIN pending_limits

\* A Job that was admitted and whose runner has not yet released it
InFlight(j) == rpc[j] \in {"admitted", "join", "deliver", "stats", "release"}

\* C11: two Jobs in flight at the same time have different job ids, and each
\* of them has its own entry in the job table.
C11_InFlightJobsDistinct ==
    \A j1, j2 \in Created :
        (j1 # j2 /\ InFlight(j1) /\ InFlight(j2)) =>
            /\ job_id[j1] # job_id[j2]
            /\ Registered(j1) /\ Registered(j2)

\* C12 as claimed: the release of a Job run a second time changes neither
\* dict, whatever happened since the first release.
C12_SecondReleaseNoOp ==
    [][\A j \in JobObjs : release_again(j) => UNCHANGED <<jobs, active_by_user>>]_vars

\* C12 as amended: the release of a Job run a second time pops the Job's id
\* and, for a non-administrator, the submitter's key as the dicts hold them
\* then: it changes nothing exactly when no Job with that id is in the job
\* table and the submitter holds no active-job entry (as when nothing was
\* admitted since), and it never touches another id or another user's key.
C12_SecondReleaseNoOpUnlessReadmitted ==
    [][\A j \in JobObjs : release_again(j) =>
          /\ UNCHANGED <<jobs, active_by_user>> <=>
                /\ job_id[j] \notin DOMAIN jobs
                /\ is_admin_user[j] \/ user_id(j) \notin DOMAIN active_by_user
          /\ \A id \in DOMAIN jobs : id # job_id[j] =>
                (id \in DOMAIN jobs' /\ jobs'[id] = jobs[id])
          /\ \A u \in DOMAIN active_by_user : u # user_id(j) =>
                (u \in DOMAIN active_by_user'
                   /\ active_by_user'[u] = active_by_user[u])
      ]_vars

\* C12 witness: the first Job of a submitter was released twice, the second
\* time after the submitter's next Job had been admitted: that Job runs and
\* the submitter holds no active-job entry.
C12_Witness ==
    /\ njobs = 2
    /\ rpc[1] = "finished" /\ InFlight(2)
    /\ user_id(1) = "u1" /\ user_id(2) = "u1"
    /\ "u1" \notin DOMAIN active_by_user

\* C13: a stop request sets the stop_event of Job j only if its id names j in
\* the job table and the requester is an administrator or the user of j, and
\* then it changes nothing else; every other stop request changes nothing.
C13_StopOnlyByOwnerOrAdmin ==
    [][/\ \A caller \in Users, id \in JobIds : handle_stop(caller, id) =>
            IF /\ id \in DOMAIN jobs
               /\ caller \in ADMIN_IDS \/ job_id[jobs[id]][1] = caller
            THEN /\ stop_event' = [stop_event EXCEPT ![jobs[id]] = TRUE]
                 /\ UNCHANGED <<processed, hits, bad, retry, hit_lines, regvars,
                                done_event>>
            ELSE UNCHANGED vars
       /\ \A j \in JobObjs : (~stop_event[j] /\ stop_event'[j]) =>
            /\ Registered(j)
            /\ \E caller \in ADMIN_IDS \cup {user_id(j)} :
                  handle_stop(caller, job_id[j])
      ]_vars

\* C13 witness: the stop_event of a non-administrator's Job is set while the
\* Job is in the job table and its workers are running.
C13_Witness ==
    /\ stop_event[1] /\ Registered(1)
    /\ user_id(1) = "u1"
    /\ ~AllExited(1) /\ Launched(1)

\* C14: a decision sent by another identity than the user named in the
\* record changes nothing: the record, the dicts and all Jobs stay as they
\* are, and the owner's own decision still finds the record.
C14_ForeignDecisionChangesNothing ==
    [][\A caller \in Users, u \in Uploaders, yes \in BOOLEAN :
          (caller # u /\ u \in DOMAIN pending_limits
             /\ handle_limit_decision(caller, u, yes)) =>
             /\ UNCHANGED vars
             /\ u \in DOMAIN pending_limits'
             /\ pending_limits'[u] = pending_limits[u]
      ]_vars

\* C14 witness: a record is waiting while a Job of another identity is in the
\* job table, so a foreign decision taken for a yes would be seen.
C14_Witness ==
    /\ "u1" \in DOMAIN pending_limits
    /\ njobs = 1 /\ user_id(1) = "adm" /\ Registered(1)

\* C15: whenever job.lock is free, each counter of a Job is the number of
\* results of its kind that check_account has returned (hits for HIT, bad for
\* BAD, retry for anything else), hit_lines has one entry per HIT with a
\* capture, and processed is their sum; for a Job that ran to completion
\* without a stop request that sum is the number of submitted items.
C15_CountersMatchOutcomes ==
    \A j \in Created :
        /\ lock[j] = 0 =>
              /\ hits[j] = verdicts[j]["HIT"] + verdicts[j]["HIT_CAPTURE"]
              /\ bad[j] = verdicts[j]["BAD"]
              /\ retry[j] = verdicts[j]["OTHER"]
              /\ Len(hit_lines[j]) = verdicts[j]["HIT_CAPTURE"]
              /\ processed[j] = hits[j] + bad[j] + retry[j]
        /\ (done_event[j] /\ status_label[j] = "Completed") =>
              /\ lock[j] = 0
              /\ processed[j] = total(j)

\* C15 witness: a Job of three items has run to completion with one HIT
\* without capture, one HIT with capture and one result that is neither HIT
\* nor BAD.
C15_Witness ==
    /\ done_event[1] /\ status_label[1] = "Completed"
    /\ total(1) = MAX_LINES + 1
    /\ verdicts[1] = [o \in Outcomes |-> IF o = "BAD" THEN 0 ELSE 1]
    /\ hits[1] = 2 /\ retry[1] = 1 /\ Len(hit_lines[1]) = 1

\* C16: no Job has its done_event set while its user's key is still in
\* active_by_user.
C16_NoActiveKeyOnceDone ==
    \A j \in Created :
        (done_event[j] /\ ~is_admin_user[j]) =>
            user_id(j) \notin DOMAIN active_by_user

\* C17: when a Job has been released from the dicts, its done_event is set,
\* its updater has made the final edit and ended, and the stats hold the
\* Job's processed and hits.
C17_ReleasedAfterUpdaterExit ==
    \A j \in Created :
        rpc[j] = "finished" =>
            /\ done_event[j]
            /\ ~Registered(j)
            /\ stats.total_lines_checked >= processed[j]
            /\ stats.total_hits >= hits[j]
            /\ upc[j] = "exit"

\* C18: the counters that format_progress renders together held together:
\* when it goes on to read job.hits and job.bad, they do not exceed the
\* job.processed it has read.
C18_RenderedCountersFromOneInstant ==
    \A j \in Created :
        upc[j] = "render" => hits[j] + bad[j] <= shown[j]

\* C19: once done_event is set the updater comes to its end; it gets there
\* only through the one edit after the loop, which it starts only after
\* having found done_event set; an edit inside the loop, arrived or raised,
\* is followed by the next pass; after its end it does nothing more.
C19_UpdaterEndsAfterDone ==
    /\ \A j \in JobObjs : done_event[j] ~> (upc[j] = "exit")
    /\ [][\A j \in JobObjs : upc'[j] # upc[j] =>
             \/ upc[j] = "none" /\ upc'[j] = "loop"
             \/ upc[j] = "loop" /\ upc'[j] = "render" /\ ~done_event[j]
             \/ upc[j] = "render" /\ upc'[j] = "loop"
             \/ upc[j] = "loop" /\ upc'[j] = "final" /\ done_event[j]
             \/ upc[j] = "final" /\ upc'[j] = "exit"
         ]_vars

\* C19 witness: the updater has ended after a Job that ran to its end.
C19_Witness ==
    /\ done_event[1] /\ upc[1] = "exit"
    /\ processed[1] = MAX_LINES

\* C20: done_event is set only when every worker thread has ended; from
\* then on the counters and hit_lines of the Job do not change, no worker
\* thread runs again and done_event stays set.
C20_FrozenOnceDone ==
    [][\A j \in JobObjs :
          /\ (~done_event[j] /\ done_event'[j]) => AllExited(j)
          /\ done_event[j] =>
                /\ done_event'[j]
                /\ AllExited(j)'
                /\ UNCHANGED <<processed[j], hits[j], bad[j], retry[j],
                               hit_lines[j], queue[j], combos[j]>>
      ]_vars

\* C20 witness: a Job is done with items processed, and its runner has gone
\* on to the release.
C20_Witness ==
    /\ done_event[1] /\ rpc[1] = "finished"
    /\ processed[1] = MAX_LINES + 1 /\ hits[1] > 0

\* The workers of Job j that have passed the loop test and not yet called
\* get_nowait
AboutToGet(j) == {w \in Threads : wpc[j][w] = "get"}

\* C21: once stop_event is set, the items taken off the queue since then,
\* together with the workers that are about to take one, are never more than
\* the worker threads: each worker takes at most the one item it was about to
\* take, so at most DEFAULT_THREADS items are taken after the request; and
\* the started workers of a stopped Job all come to their end.
C21_AtMostOneMoreClaimEach ==
    /\ [](\A j \in JobObjs : stop_event[j] =>
             /\ Len(claimed[j]) - stop_claims[j] + Cardinality(AboutToGet(j))
                   <= DEFAULT_THREADS
             /\ Len(claimed[j]) - stop_claims[j] <= DEFAULT_THREADS)
    /\ \A j \in JobObjs : (stop_event[j] /\ rpc[j] = "join") ~> AllExited(j)

\* C21 witness: after the stop request every worker took one more item and
\* ended, and an item is left in the queue.
C21_Witness ==
    /\ stop_event[1] /\ AllExited(1)
    /\ Len(claimed[1]) - stop_claims[1] = DEFAULT_THREADS
    /\ queue[1] # <<>>

\* C22: once all workers of a Job have ended, with or without a stop
\* request, processed is the number of items taken off the queue, and
\* processed plus the items left in the queue is the total.
C22_NoClaimedItemLost ==
    \A j \in Created : (Launched(j) /\ AllExited(j)) =>
        /\ processed[j] = Len(claimed[j])
        /\ processed[j] + Len(queue[j]) = total(j)

\* C22 witness: a stopped Job whose workers have ended with items processed
\* and items left in the queue.
C22_Witness ==
    /\ AllExited(1) /\ stop_event[1]
    /\ processed[1] > 0 /\ queue[1] # <<>>
    /\ processed[1] + Len(queue[1]) = total(1)

====
